---- MODULE Spec2Model ----
(***************************************************************************)
(* DmxController (src/_archive/py/controller.py): the channel array, the   *)
(* serial connection, send_dmx_packet and the mode-setting operations that  *)
(* resolve a mode name to one channel write.                                *)
(*                                                                          *)
(* An optional Python argument is a sequence: << >> is None, <<v>> is v.    *)
(* A Python dict {channel: value} is a function from channels to values.    *)
(***************************************************************************)
EXTENDS Integers, Sequences, FiniteSets, TLC

VARIABLES
    num_channels,   \* self.num_channels, fixed by the constructor
    current_state,  \* self.current_state, index 1 = DMX channel 1
    serial_port,    \* self.serial_port: "None", "Open", or "Unusable"
    last,           \* the call that has just returned (Idle between calls)
    calls,          \* number of calls made so far
    returned_state, \* the list get_current_state handed to the caller, if any
    returned_values \* the elements that list had when it was handed out

vars == <<num_channels, current_state, serial_port, last, calls,
          returned_state, returned_values>>

\* ---------------------------------------------------------------- bounds
MaxCalls == 2

\* ---------------------------------------------------------------- inputs
NoValue == << >>
NumChannelsChoices == {32, 14}
LaserNums == {1, 2, 3}
ArgValues == {-1, 0, 255, 256}
ArgChannels == {0, 1, 2, 14, 15, 16, 31, 32, 33}
ReadChannels == {0, 1, 14, 15, 32, 33}
ExpansionValues == {-1, 0, 50, 256}
DelayValues == {NoValue, <<-1>>, <<10>>, <<256>>}
ColorValues == {NoValue, <<0>>, <<1>>, <<255>>, <<256>>}
ExampleValues == {<<145>>, <<300>>}
ManualValues == {<<0>>, <<127>>, <<128>>}
GalleryNums == {0, 1, 2}
BogusMode == "bogus"
\* dicts handed directly to send_dmx_packet (None is the empty dict)
PacketMaps ==
    { << >>,
      (1 :> 10) @@ (2 :> 20),
      (1 :> 10) @@ (2 :> 300),
      (1 :> 10) @@ (33 :> 5),
      (0 :> 5) @@ (2 :> -1) }

\* ----------------------------------------------------------- mode tables
\* "off" is the bare value 0 in the source, the others are (lo, hi) tuples
lamp_modes ==
    [ off |-> <<0, 0>>, manual |-> <<1, 99>>, dynamic_sound |-> <<100, 199>>,
      tune_program |-> <<200, 219>>, sound_program |-> <<220, 249>>,
      off_end |-> <<250, 255>> ]
pattern_size_modes ==
    [ parts_blank |-> <<0, 49>>, returns |-> <<50, 99>>, folds |-> <<100, 149>>,
      crossing |-> <<150, 199>>, blanking |-> <<200, 255>> ]
pattern_zooming_modes ==
    [ static |-> <<0, 127>>, zoom_in |-> <<128, 159>>, zoom_out |-> <<160, 191>>,
      flip_zooming |-> <<192, 255>> ]
pattern_rotation_modes ==
    [ static |-> <<0, 127>>, dynamic_inversion |-> <<128, 255>> ]
horizontal_movement_modes ==
    [ static |-> <<0, 127>>, push_up |-> <<128, 159>>, push_down |-> <<160, 191>>,
      left_shift |-> <<192, 223>>, right_shift |-> <<224, 255>> ]
vertical_movement_modes ==
    [ static |-> <<0, 127>>, right_push |-> <<128, 159>>, left_push |-> <<160, 191>>,
      move_up |-> <<192, 223>>, move_down |-> <<224, 255>> ]
horizontal_zooming_modes ==
    [ static |-> <<0, 127>>, push_up_distortion |-> <<128, 159>>,
      push_down_distortion |-> <<160, 191>>, zooming |-> <<192, 223>>,
      flip_zooming |-> <<224, 255>> ]
vertical_zooming_modes ==
    [ static |-> <<0, 127>>, right_push_distortion |-> <<128, 159>>,
      left_push_distortion |-> <<160, 191>>, zoom |-> <<192, 223>>,
      dynamic_flip_zooming |-> <<224, 255>> ]
strobe_flash_modes ==
    [ off |-> <<0, 15>>, strobe |-> <<16, 131>>, random_flash |-> <<132, 147>>,
      sound_strobe |-> <<148, 199>>, sound_random_flash |-> <<200, 215>>,
      on |-> <<216, 255>> ]
node_highlighting_modes ==
    [ brighter |-> <<0, 63>>, broken_lines |-> <<64, 127>>,
      scanning_line |-> <<128, 223>> ]
gradual_drawing_modes ==
    [ forward_manual |-> <<0, 63>>, reverse_manual |-> <<64, 127>>,
      dynamic_A |-> <<128, 159>>, dynamic_B |-> <<160, 191>>,
      dynamic_C |-> <<192, 223>>, dynamic_D |-> <<224, 255>> ]
horizontal_flip_modes ==
    [ static |-> <<0, 127>>, push_up_distortion |-> <<128, 159>>,
      push_down_distortion |-> <<160, 191>>, flip |-> <<192, 223>> ]
vertical_flip_modes ==
    [ static |-> <<0, 127>>, right_push_distortion |-> <<128, 159>>,
      left_push_distortion |-> <<160, 191>>, flip |-> <<192, 255>> ]
color_change_modes ==
    [ primary |-> <<0, 7>>, white |-> <<8, 15>>, red |-> <<16, 23>>,
      yellow |-> <<24, 31>>, green |-> <<32, 39>>, indigo |-> <<40, 47>>,
      blue |-> <<48, 55>>, purple |-> <<56, 63>>, rgb_cycle |-> <<64, 95>>,
      yip_cycle |-> <<96, 127>>, full_color_cycle |-> <<128, 159>>,
      colorful_change |-> <<160, 191>>, forward_movement |-> <<192, 223>>,
      reverse_movement |-> <<224, 255>> ]

ModeNames(modes) == DOMAIN modes \cup {BogusMode}

\* explicit values tried with a mode: none, just below its range, its upper
\* bound, just above its range
ProbeValues(modes, mode) ==
    IF mode \in DOMAIN modes
    THEN {NoValue, <<modes[mode][1] - 1>>, <<modes[mode][2]>>, <<modes[mode][2] + 1>>}
    ELSE {NoValue, <<0>>}

\* ------------------------------------------------------------ call record
Info(op, sel, mode, value, delay) ==
    [op |-> op, sel |-> sel, mode |-> mode, value |-> value, delay |-> delay]

Done(info, outcome, cv, packet, result) ==
    [ op |-> info.op, sel |-> info.sel, mode |-> info.mode,
      value |-> info.value, delay |-> info.delay,
      outcome |-> outcome, cv |-> cv, packet |-> packet, result |-> result,
      pre |-> current_state,
      sends |-> 0,          \* calls of send_dmx_packet made by the operation
      raised |-> FALSE ]    \* an exception reached the caller

Idle ==
    [ op |-> "idle", sel |-> 0, mode |-> "", value |-> NoValue, delay |-> NoValue,
      outcome |-> "idle", cv |-> << >>, packet |-> << >>, result |-> NoValue,
      pre |-> << >>, sends |-> 0, raised |-> FALSE ]

Count ==
    /\ calls' = calls + 1
    /\ UNCHANGED <<num_channels, serial_port, returned_state, returned_values>>

\* ------------------------------------------------------- send_dmx_packet
ValidEntry_AnyValue(channel, value) ==
    1 <= channel /\ channel <= num_channels

ValidEntry(channel, value) ==
    /\ 1 <= channel /\ channel <= num_channels
    /\ 0 <= value /\ value <= 255

\* current_state[channel] = value, one element too far
UpdateState_OffByOne(state, channel_values) ==
    [ i \in 1..Len(state) |->
        IF (i - 1) \in DOMAIN channel_values /\ ValidEntry(i - 1, channel_values[i - 1])
        THEN channel_values[i - 1]
        ELSE state[i] ]

\* the test 1 <= channel dropped: Python's index -1 is the last element
UpdateState_ZeroWraps(state, channel_values) ==
    [ i \in 1..Len(state) |->
        IF i \in DOMAIN channel_values /\ ValidEntry(i, channel_values[i])
        THEN channel_values[i]
        ELSE IF i = Len(state) /\ 0 \in DOMAIN channel_values
                /\ 0 <= channel_values[0] /\ channel_values[0] <= 255
        THEN channel_values[0]
        ELSE state[i] ]

\* every entry validated before any is stored
UpdateState_AllOrNothing(state, channel_values) ==
    IF \A c \in DOMAIN channel_values : ValidEntry(c, channel_values[c])
    THEN [ i \in 1..Len(state) |->
             IF i \in DOMAIN channel_values THEN channel_values[i] ELSE state[i] ]
    ELSE state

UpdateState(state, channel_values) ==
    [ i \in 1..Len(state) |->
        IF i \in DOMAIN channel_values /\ ValidEntry(i, channel_values[i])
        THEN channel_values[i]
        ELSE state[i] ]

BuildPacket_NoStartCode(state) == state

BuildPacket(state) == <<0>> \o state

\* the except clause of lines 109-110 left out: SerialException leaves the method
send_dmx_packet_Propagates(info, channel_values) ==
    /\ Count
    /\ IF serial_port = "None"
       THEN /\ UNCHANGED current_state
            /\ last' = [Done(info, "not_connected", channel_values, << >>, NoValue)
                            EXCEPT !.sends = 1]
       ELSE LET new == UpdateState(current_state, channel_values) IN
            /\ current_state' = new
            /\ last' = [Done(info,
                             IF serial_port = "Open" THEN "sent" ELSE "io_error",
                             channel_values, BuildPacket(new), NoValue)
                            EXCEPT !.sends = 1, !.raised = (serial_port # "Open")]

\* the array updated before the connection test of lines 90-92
send_dmx_packet_UpdateFirst(info, channel_values) ==
    /\ Count
    /\ current_state' = UpdateState(current_state, channel_values)
    /\ last' = [Done(info,
                     IF serial_port = "None" THEN "not_connected"
                     ELSE IF serial_port = "Open" THEN "sent" ELSE "io_error",
                     channel_values,
                     IF serial_port = "None" THEN << >> ELSE BuildPacket(current_state'),
                     NoValue)
                    EXCEPT !.sends = 1]

\* "not_connected": the message of line 91 is printed and the method returns
\* None; "io_error": write raised SerialException, which is caught and
\* printed (lines 109-110), and the method returns None; "sent": write returned
send_dmx_packet(info, channel_values) ==
    /\ Count
    /\ IF serial_port = "None"
       THEN /\ UNCHANGED current_state
            /\ last' = [Done(info, "not_connected", channel_values, << >>, NoValue)
                            EXCEPT !.sends = 1]
       ELSE LET new == UpdateState(current_state, channel_values) IN
            /\ current_state' = new
            /\ last' = [Done(info,
                             IF serial_port = "Open" THEN "sent" ELSE "io_error",
                             channel_values, BuildPacket(new), NoValue)
                            EXCEPT !.sends = 1]

\* the write repeated on the other laser's channel, 17 further on
set_channel_call_WritesPair(info, channel, value) ==
    send_dmx_packet(info, (channel :> value) @@ ((channel + 17) :> value))

set_channel_call(info, channel, value) ==
    send_dmx_packet(info, channel :> value)

\* a validation failure: the message is printed and the method returns
Reject(info) ==
    /\ Count
    /\ UNCHANGED current_state
    /\ last' = Done(info, "rejected", << >>, << >>, NoValue)

\* an exception other than SerialException leaves the method
Fault(info) ==
    /\ Count
    /\ UNCHANGED current_state
    /\ last' = [Done(info, "fault", << >>, << >>, NoValue) EXCEPT !.raised = TRUE]

get_channel_value_of(state, channel) ==
    IF 1 <= channel /\ channel <= num_channels THEN <<state[channel]>> ELSE NoValue

\* the shape shared by the range-based setters: << >> when the call is
\* refused, <<v>> when v is to be written
range_value_DefaultUpper(modes, mode, value) ==
    IF mode \notin DOMAIN modes THEN NoValue
    ELSE IF value = NoValue THEN <<modes[mode][2]>>
    ELSE IF ~(modes[mode][1] <= value[1] /\ value[1] <= modes[mode][2]) THEN NoValue
    ELSE value

range_value_StrictUpper(modes, mode, value) ==
    IF mode \notin DOMAIN modes THEN NoValue
    ELSE IF value = NoValue THEN <<modes[mode][1]>>
    ELSE IF ~(modes[mode][1] <= value[1] /\ value[1] < modes[mode][2]) THEN NoValue
    ELSE value

range_value(modes, mode, value) ==
    IF mode \notin DOMAIN modes THEN NoValue
    ELSE IF value = NoValue THEN <<modes[mode][1]>>
    ELSE IF ~(modes[mode][1] <= value[1] /\ value[1] <= modes[mode][2]) THEN NoValue
    ELSE value

range_call(info, channel, modes) ==
    LET r == range_value(modes, info.mode, info.value) IN
    IF r = NoValue THEN Reject(info) ELSE set_channel_call(info, channel, r[1])

\* ------------------------------------------------------------ operations
send_dmx_packet_direct(channel_values) ==
    send_dmx_packet(Info("send_dmx_packet", 0, "", NoValue, NoValue), channel_values)

set_channel(channel, value) ==
    set_channel_call(Info("set_channel", channel, "", <<value>>, NoValue), channel, value)

get_channel_value(channel) ==
    /\ Count
    /\ UNCHANGED current_state
    /\ last' = Done(Info("get_channel_value", channel, "", NoValue, NoValue),
                    "returned", << >>, << >>,
                    get_channel_value_of(current_state, channel))

lamp_mode_call(op, mode) ==
    LET info == Info(op, 0, mode, NoValue, NoValue) IN
    IF mode \notin DOMAIN lamp_modes THEN Reject(info)
    ELSE set_channel_call(info, 1, lamp_modes[mode][1])

set_lamp_mode(mode) == lamp_mode_call("set_lamp_mode", mode)

set_pattern_size(laser_num, size_mode, value) ==
    LET info == Info("set_pattern_size", laser_num, size_mode, value, NoValue) IN
    IF laser_num \notin {1, 2} THEN Reject(info)
    ELSE range_call(info, IF laser_num = 1 THEN 2 ELSE 19, pattern_size_modes)

select_gallery(gallery_num) ==
    LET info == Info("select_gallery", gallery_num, "", NoValue, NoValue) IN
    IF gallery_num = 0 THEN set_channel_call(info, 3, 0)
    ELSE IF gallery_num = 1 THEN set_channel_call(info, 3, 240)
    ELSE Reject(info)

select_pattern(laser_num, pattern_index) ==
    set_channel_call(Info("select_pattern", laser_num, "", <<pattern_index>>, NoValue),
                     IF laser_num = 1 THEN 4 ELSE 21, pattern_index)

set_pattern_zooming(laser_num, zoom_mode, value) ==
    range_call(Info("set_pattern_zooming", laser_num, zoom_mode, value, NoValue),
               IF laser_num = 1 THEN 5 ELSE 22, pattern_zooming_modes)

set_pattern_rotation(laser_num, rotation_mode, value) ==
    range_call(Info("set_pattern_rotation", laser_num, rotation_mode, value, NoValue),
               IF laser_num = 1 THEN 6 ELSE 23, pattern_rotation_modes)

set_horizontal_movement(laser_num, movement_mode, value) ==
    range_call(Info("set_horizontal_movement", laser_num, movement_mode, value, NoValue),
               IF laser_num = 1 THEN 7 ELSE 24, horizontal_movement_modes)

set_vertical_movement(laser_num, movement_mode, value) ==
    range_call(Info("set_vertical_movement", laser_num, movement_mode, value, NoValue),
               IF laser_num = 1 THEN 8 ELSE 25, vertical_movement_modes)

set_horizontal_zooming(zoom_mode, value) ==
    range_call(Info("set_horizontal_zooming", 0, zoom_mode, value, NoValue),
               9, horizontal_zooming_modes)

set_vertical_zooming(zoom_mode, value) ==
    range_call(Info("set_vertical_zooming", 0, zoom_mode, value, NoValue),
               10, vertical_zooming_modes)

set_forced_color(laser_num, mode, value) ==
    LET info == Info("set_forced_color", laser_num, mode, value, NoValue)
        channel == IF laser_num = 1 THEN 11 ELSE 28
    IN  IF mode = "primary" THEN set_channel_call(info, channel, 0)
        ELSE IF mode = "change_every_n"
             THEN IF value = NoValue THEN Reject(info)
                  ELSE IF ~(1 <= value[1] /\ value[1] <= 255) THEN Reject(info)
                  ELSE set_channel_call(info, channel, value[1])
        ELSE Reject(info)

set_strobe_flash(mode, value) ==
    range_call(Info("set_strobe_flash", 0, mode, value, NoValue), 12, strobe_flash_modes)

set_node_highlighting(laser_num, mode, value) ==
    range_call(Info("set_node_highlighting", laser_num, mode, value, NoValue),
               IF laser_num = 1 THEN 13 ELSE 30, node_highlighting_modes)

set_node_expansion_StrictThreshold(laser_num, expansion_value, delay_value) ==
    LET info == Info("set_node_expansion", laser_num, "", <<expansion_value>>, delay_value)
        channel == IF laser_num = 1 THEN 14 ELSE 31
        companion == get_channel_value_of(current_state, IF laser_num = 1 THEN 15 ELSE 32)
    IN  IF ~(0 <= expansion_value /\ expansion_value <= 255) THEN Reject(info)
        ELSE IF companion = NoValue THEN Fault(info)
        ELSE IF companion[1] > 128
             THEN IF delay_value = NoValue THEN Reject(info)
                  ELSE IF ~(0 <= delay_value[1] /\ delay_value[1] <= 255) THEN Reject(info)
                  ELSE set_channel_call(info, channel, delay_value[1])
        ELSE set_channel_call(info, channel, expansion_value)

set_node_expansion(laser_num, expansion_value, delay_value) ==
    LET info == Info("set_node_expansion", laser_num, "", <<expansion_value>>, delay_value)
        channel == IF laser_num = 1 THEN 14 ELSE 31
        companion == get_channel_value_of(current_state, IF laser_num = 1 THEN 15 ELSE 32)
    IN  IF ~(0 <= expansion_value /\ expansion_value <= 255) THEN Reject(info)
        ELSE IF companion = NoValue THEN Fault(info)   \* None >= 128 raises TypeError
        ELSE IF companion[1] >= 128
             THEN IF delay_value = NoValue THEN Reject(info)
                  ELSE IF ~(0 <= delay_value[1] /\ delay_value[1] <= 255) THEN Reject(info)
                  ELSE set_channel_call(info, channel, delay_value[1])
        ELSE set_channel_call(info, channel, expansion_value)

\* get_channel_value(c) == 0, where None == 0 is False
companion_is_zero(channel) ==
    get_channel_value_of(current_state, channel) = <<0>>

set_gradual_drawing(laser_num, mode, manual_expansion_value) ==
    LET info == Info("set_gradual_drawing", laser_num, mode, manual_expansion_value, NoValue)
        channel == IF laser_num = 1 THEN 15 ELSE 32
    IN  IF mode \notin DOMAIN gradual_drawing_modes THEN Reject(info)
        ELSE IF mode \in {"forward_manual", "reverse_manual"}
             THEN IF manual_expansion_value = NoValue THEN Reject(info)
                  ELSE IF ~(0 <= manual_expansion_value[1]
                            /\ manual_expansion_value[1]
                                 <= (IF mode = "forward_manual" THEN 127 ELSE 63))
                       THEN Reject(info)
                  ELSE IF laser_num = 1 /\ companion_is_zero(14) THEN Reject(info)
                  ELSE IF laser_num = 2 /\ companion_is_zero(31) THEN Reject(info)
                  ELSE set_channel_call(info, channel, manual_expansion_value[1])
        ELSE set_channel_call(info, channel, gradual_drawing_modes[mode][1])

set_distortion_degree(laser_num, degree) ==
    LET info == Info("set_distortion_degree", laser_num, "", <<degree>>, NoValue) IN
    IF ~(0 <= degree /\ degree <= 255) THEN Reject(info)
    ELSE set_channel_call(info, IF laser_num = 1 THEN 16 ELSE 17, degree)

set_second_lamp_pattern(pattern_value) ==
    LET info == Info("set_second_lamp_pattern", 0, "", <<pattern_value>>, NoValue) IN
    IF ~(0 <= pattern_value /\ pattern_value <= 255) THEN Reject(info)
    ELSE set_channel_call(info, 18, pattern_value)

set_pattern_library_selection(mode) ==
    LET info == Info("set_pattern_library_selection", 0, mode, NoValue, NoValue) IN
    IF mode = "default" THEN set_channel_call(info, 20, 0) ELSE Reject(info)

set_horizontal_flip(mode, value) ==
    range_call(Info("set_horizontal_flip", 0, mode, value, NoValue), 26, horizontal_flip_modes)

set_vertical_flip(mode, value) ==
    range_call(Info("set_vertical_flip", 0, mode, value, NoValue), 27, vertical_flip_modes)

set_color_change(mode, value) ==
    range_call(Info("set_color_change", 0, mode, value, NoValue), 29, color_change_modes)

blackout_ZeroAll ==
    send_dmx_packet(Info("blackout", 0, "off", NoValue, NoValue),
                    [i \in 1..num_channels |-> 0])

blackout == lamp_mode_call("blackout", "off")

reset_all_channels_OffByOne ==
    send_dmx_packet(Info("reset_all_channels", 0, "", NoValue, NoValue),
                    [i \in 1..(num_channels - 1) |-> 0])

reset_all_channels ==
    send_dmx_packet(Info("reset_all_channels", 0, "", NoValue, NoValue),
                    [i \in 1..num_channels |-> 0])

\* return self.current_state: the caller receives the list object itself,
\* not a new list
get_current_state ==
    /\ calls' = calls + 1
    /\ returned_state' = "self.current_state"
    /\ returned_values' = current_state
    /\ last' = Done(Info("get_current_state", 0, "", NoValue, NoValue),
                    "returned", << >>, << >>, NoValue)
    /\ UNCHANGED <<num_channels, serial_port, current_state>>

\* the elements of the list the caller holds, read now
ReturnedList ==
    IF returned_state = "self.current_state" THEN current_state ELSE << >>

\* ------------------------------------------------------------- lifecycle
\* control is back with the caller, which makes its next call
Return ==
    /\ last # Idle
    /\ last' = Idle
    /\ UNCHANGED <<num_channels, current_state, serial_port, calls,
                   returned_state, returned_values>>

disconnect ==
    /\ last = Idle
    /\ serial_port # "None"
    /\ serial_port' = "None"
    /\ UNCHANGED <<num_channels, current_state, last, calls,
                   returned_state, returned_values>>

\* the device goes away under an open port: write raises SerialException from now on
device_lost ==
    /\ last = Idle
    /\ serial_port = "Open"
    /\ serial_port' = "Unusable"
    /\ UNCHANGED <<num_channels, current_state, last, calls,
                   returned_state, returned_values>>

\* ------------------------------------------------------------------ spec
Init ==
    /\ num_channels \in NumChannelsChoices
    /\ current_state = [i \in 1..num_channels |-> 0]
    /\ serial_port \in {"None", "Open", "Unusable"}
    /\ calls = 0
    /\ last = Idle
    /\ returned_state = "nothing"
    /\ returned_values = << >>

\* the caller holds control and makes one more call of the public API
CanCall == last = Idle /\ calls < MaxCalls

Next ==
    \/ CanCall /\ \E cv \in PacketMaps : send_dmx_packet_direct(cv)
    \/ CanCall /\ \E c \in ArgChannels, v \in ArgValues : set_channel(c, v)
    \/ CanCall /\ \E c \in ReadChannels : get_channel_value(c)
    \/ CanCall /\ \E m \in ModeNames(lamp_modes) : set_lamp_mode(m)
    \/ CanCall /\ \E l \in LaserNums, m \in ModeNames(pattern_size_modes) :
            \E v \in ProbeValues(pattern_size_modes, m) : set_pattern_size(l, m, v)
    \/ CanCall /\ \E g \in GalleryNums : select_gallery(g)
    \/ CanCall /\ \E l \in LaserNums, v \in ArgValues : select_pattern(l, v)
    \/ CanCall /\ \E l \in LaserNums, m \in ModeNames(pattern_zooming_modes) :
            \E v \in ProbeValues(pattern_zooming_modes, m) \cup ExampleValues :
            set_pattern_zooming(l, m, v)
    \/ CanCall /\ \E l \in LaserNums, m \in ModeNames(pattern_rotation_modes) :
            \E v \in ProbeValues(pattern_rotation_modes, m) : set_pattern_rotation(l, m, v)
    \/ CanCall /\ \E l \in LaserNums, m \in ModeNames(horizontal_movement_modes) :
            \E v \in ProbeValues(horizontal_movement_modes, m) :
            set_horizontal_movement(l, m, v)
    \/ CanCall /\ \E l \in LaserNums, m \in ModeNames(vertical_movement_modes) :
            \E v \in ProbeValues(vertical_movement_modes, m) :
            set_vertical_movement(l, m, v)
    \/ CanCall /\ \E m \in ModeNames(horizontal_zooming_modes) :
            \E v \in ProbeValues(horizontal_zooming_modes, m) : set_horizontal_zooming(m, v)
    \/ CanCall /\ \E m \in ModeNames(vertical_zooming_modes) :
            \E v \in ProbeValues(vertical_zooming_modes, m) : set_vertical_zooming(m, v)
    \/ CanCall /\ \E l \in LaserNums, m \in {"primary", "change_every_n", BogusMode} :
            \E v \in ColorValues : set_forced_color(l, m, v)
    \/ CanCall /\ \E m \in ModeNames(strobe_flash_modes) :
            \E v \in ProbeValues(strobe_flash_modes, m) : set_strobe_flash(m, v)
    \/ CanCall /\ \E l \in LaserNums, m \in ModeNames(node_highlighting_modes) :
            \E v \in ProbeValues(node_highlighting_modes, m) :
            set_node_highlighting(l, m, v)
    \/ CanCall /\ \E l \in LaserNums, e \in ExpansionValues, d \in DelayValues :
            set_node_expansion(l, e, d)
    \/ CanCall /\ \E l \in LaserNums, m \in ModeNames(gradual_drawing_modes) :
            \E v \in ProbeValues(gradual_drawing_modes, m)
            \cup (IF m \in {"forward_manual", "reverse_manual"}
            THEN ManualValues ELSE {}) :
            set_gradual_drawing(l, m, v)
    \/ CanCall /\ \E l \in LaserNums, v \in ArgValues : set_distortion_degree(l, v)
    \/ CanCall /\ \E v \in ArgValues : set_second_lamp_pattern(v)
    \/ CanCall /\ \E m \in {"default", BogusMode} : set_pattern_library_selection(m)
    \/ CanCall /\ \E m \in ModeNames(horizontal_flip_modes) :
            \E v \in ProbeValues(horizontal_flip_modes, m) : set_horizontal_flip(m, v)
    \/ CanCall /\ \E m \in ModeNames(vertical_flip_modes) :
            \E v \in ProbeValues(vertical_flip_modes, m) : set_vertical_flip(m, v)
    \/ CanCall /\ \E m \in ModeNames(color_change_modes) :
            \E v \in ProbeValues(color_change_modes, m) : set_color_change(m, v)
    \/ CanCall /\ blackout
    \/ CanCall /\ reset_all_channels
    \/ CanCall /\ get_current_state
    \/ Return
    \/ disconnect
    \/ device_lost

Spec == Init /\ [][Next]_vars

\* ================================================================ claims
Connected == serial_port # "None"
Handed == last.outcome \in {"sent", "io_error"}      \* a packet went to write
Zeros == [i \in 1..num_channels |-> 0]
InByte(v) == 0 <= v /\ v <= 255
InChannels(c) == 1 <= c /\ c <= num_channels

\* ---- the features with a mode table, and the channel each one targets
FeatureTable ==
    [ set_lamp_mode |-> lamp_modes,
      set_pattern_size |-> pattern_size_modes,
      set_pattern_zooming |-> pattern_zooming_modes,
      set_pattern_rotation |-> pattern_rotation_modes,
      set_horizontal_movement |-> horizontal_movement_modes,
      set_vertical_movement |-> vertical_movement_modes,
      set_horizontal_zooming |-> horizontal_zooming_modes,
      set_vertical_zooming |-> vertical_zooming_modes,
      set_strobe_flash |-> strobe_flash_modes,
      set_node_highlighting |-> node_highlighting_modes,
      set_gradual_drawing |-> gradual_drawing_modes,
      set_horizontal_flip |-> horizontal_flip_modes,
      set_vertical_flip |-> vertical_flip_modes,
      set_color_change |-> color_change_modes ]

FeatureBase ==
    [ set_lamp_mode |-> 1, set_pattern_size |-> 2, set_pattern_zooming |-> 5,
      set_pattern_rotation |-> 6, set_horizontal_movement |-> 7,
      set_vertical_movement |-> 8, set_horizontal_zooming |-> 9,
      set_vertical_zooming |-> 10, set_strobe_flash |-> 12,
      set_node_highlighting |-> 13, set_gradual_drawing |-> 15,
      set_horizontal_flip |-> 26, set_vertical_flip |-> 27, set_color_change |-> 29 ]

LaserFeatures ==
    { "set_pattern_size", "set_pattern_zooming", "set_pattern_rotation",
      "set_horizontal_movement", "set_vertical_movement", "set_node_highlighting",
      "set_gradual_drawing" }

\* base channel for laser 1, base channel + 17 for laser 2
TargetChannel(op, sel) ==
    IF op \in LaserFeatures /\ sel = 2 THEN FeatureBase[op] + 17 ELSE FeatureBase[op]

\* the last call named a feature with a mode table, a mode of that table and,
\* where the feature is per laser, laser 1 or 2
KnownModeCall ==
    /\ last.op \in DOMAIN FeatureTable
    /\ last.mode \in DOMAIN FeatureTable[last.op]
    /\ (last.op \in LaserFeatures => last.sel \in {1, 2})

LastRange == FeatureTable[last.op][last.mode]
LastTarget == TargetChannel(last.op, last.sel)
ManualCall ==
    last.op = "set_gradual_drawing" /\ last.mode \in {"forward_manual", "reverse_manual"}

\* C1: after any sequence of operations with arbitrary integer arguments the
\* channel array has exactly num_channels elements, each in 0..255.
C1_ArrayInvariant ==
    /\ Len(current_state) = num_channels
    /\ \A i \in 1..Len(current_state) : InByte(current_state[i])

\* an out-of-range value was offered while connected and a valid write landed
C1_Witness ==
    /\ last.op = "send_dmx_packet" /\ Handed
    /\ last.cv = ((1 :> 10) @@ (2 :> 300))
    /\ current_state[1] = 10 /\ current_state[2] = 0

\* C2 (as stated): set_channel(i, v) with i in 1..N and v in 0..255, then
\* get_channel_value(i), returns v whatever the connection state.
C2_RoundTripAnyConnection ==
    (last.op = "set_channel" /\ InChannels(last.sel) /\ InByte(last.value[1]))
        => get_channel_value_of(current_state, last.sel) = last.value

\* C2 (amended): the round trip holds whenever serial_port is not None.
C2_RoundTripConnected ==
    (last.op = "set_channel" /\ InChannels(last.sel) /\ InByte(last.value[1])
        /\ Connected)
        => get_channel_value_of(current_state, last.sel) = last.value

C2_Witness ==
    /\ num_channels = 32
    /\ last.op = "set_channel" /\ last.sel = 32 /\ last.value = <<255>>
    /\ Connected /\ last.pre[32] = 0
    /\ get_channel_value_of(current_state, 32) = <<255>>

\* ---- the ways the last call fails, read off its arguments
BadChannelWrite ==
    last.op = "set_channel" /\ ~ValidEntry(last.sel, last.value[1])

UnknownMode ==
    \/ last.op \in DOMAIN FeatureTable /\ last.mode \notin DOMAIN FeatureTable[last.op]
    \/ last.op = "set_forced_color" /\ last.mode \notin {"primary", "change_every_n"}
    \/ last.op = "set_pattern_library_selection" /\ last.mode # "default"

ValueOutsideRange ==
    \/ /\ KnownModeCall /\ last.op # "set_gradual_drawing" /\ last.value # NoValue
       /\ ~(LastRange[1] <= last.value[1] /\ last.value[1] <= LastRange[2])
    \/ /\ last.op = "set_forced_color" /\ last.mode = "change_every_n"
       /\ last.value # NoValue /\ ~(1 <= last.value[1] /\ last.value[1] <= 255)

MissingRequiredValue ==
    \/ last.op = "set_forced_color" /\ last.mode = "change_every_n" /\ last.value = NoValue
    \/ ManualCall /\ last.value = NoValue
    \/ /\ last.op = "set_node_expansion" /\ last.delay = NoValue
       /\ InChannels(IF last.sel = 1 THEN 15 ELSE 32)
       /\ last.pre[IF last.sel = 1 THEN 15 ELSE 32] >= 128

PreconditionNotMet ==
    /\ ManualCall /\ last.sel \in {1, 2}
    /\ InChannels(IF last.sel = 1 THEN 14 ELSE 31)
    /\ last.pre[IF last.sel = 1 THEN 14 ELSE 31] = 0

\* C3: a call that fails (set_channel with a channel outside 1..N or a value
\* outside 0..255; a mode-setting call refused for an unknown mode, a value
\* outside the range, a missing required value or an unmet precondition)
\* leaves the channel array as it was before the call.
C3_FailureLeavesArray ==
    (\/ last.outcome = "rejected"
     \/ BadChannelWrite
     \/ UnknownMode
     \/ ValueOutsideRange
     \/ MissingRequiredValue
     \/ PreconditionNotMet)
        => current_state = last.pre

\* a refused node expansion (companion >= 128, no delay_value) on a
\* connected controller whose array is not all zeros
C3_Witness ==
    /\ MissingRequiredValue /\ last.op = "set_node_expansion" /\ last.sel = 1
    /\ Connected /\ last.outcome = "rejected"
    /\ last.pre[15] = 128 /\ current_state = last.pre

\* C4 (as stated): right after reset_all_channels the array is N zeros, from
\* any channel contents and any connection state.
C4_ResetAlwaysZeros ==
    last.op = "reset_all_channels" => current_state = Zeros

\* C4 (amended): right after reset_all_channels made while serial_port is
\* not None the array is N zeros.
C4_ResetZerosConnected ==
    (last.op = "reset_all_channels" /\ Connected) => current_state = Zeros

C4_Witness ==
    /\ last.op = "reset_all_channels" /\ Connected
    /\ last.pre # Zeros /\ current_state = Zeros

\* C5: every packet handed to write is the byte 0 followed by the N bytes of
\* the array as it stands after the call's updates; its length is N + 1.
C5_PacketIsFreshState ==
    Handed =>
        /\ Len(last.packet) = num_channels + 1
        /\ last.packet[1] = 0
        /\ \A i \in 1..num_channels : last.packet[i + 1] = current_state[i]

C5_Witness ==
    /\ Handed /\ last.op = "set_channel"
    /\ last.pre[2] = 0 /\ current_state[2] = 255 /\ last.packet[3] = 255

\* C6 (as stated): for every feature with a mode table and every mode of the
\* table, a call with no explicit value succeeds and writes the lower bound
\* of the mode's range to the feature's channel.
C6_DefaultIsLowerBound ==
    (KnownModeCall /\ last.value = NoValue)
        => /\ Handed
           /\ get_channel_value_of(current_state, LastTarget) = <<LastRange[1]>>

\* C6 (amended): the same for every mode except gradual drawing's manual
\* modes, when serial_port is not None and the channel is within 1..N; a
\* manual gradual-drawing call with no value is refused and writes nothing.
C6_DefaultIsLowerBoundAmended ==
    (KnownModeCall /\ last.value = NoValue)
        => IF ManualCall
           THEN last.outcome = "rejected" /\ current_state = last.pre
           ELSE (Connected /\ InChannels(LastTarget))
                   => /\ Handed
                      /\ get_channel_value_of(current_state, LastTarget)
                            = <<LastRange[1]>>

C6_Witness ==
    /\ last.op = "set_lamp_mode" /\ last.mode = "dynamic_sound" /\ Handed
    /\ last.pre[1] = 0 /\ current_state[1] = 100

\* C7 (as stated): for a range-based feature duplicated across the two
\* lasers, a call with a known mode and an explicit value v writes v to the
\* laser's channel if lo <= v <= hi, and fails and writes nothing otherwise.
C7_ExplicitValueIffInRange ==
    (KnownModeCall /\ last.op \in LaserFeatures /\ last.value # NoValue)
        => IF LastRange[1] <= last.value[1] /\ last.value[1] <= LastRange[2]
           THEN Handed /\ get_channel_value_of(current_state, LastTarget) = last.value
           ELSE last.outcome = "rejected" /\ current_state = last.pre

\* C7 (amended): the same for the duplicated features other than gradual
\* drawing; the write of an in-range v takes place when serial_port is not
\* None and the channel is within 1..N.
C7_ExplicitValueIffInRangeAmended ==
    (KnownModeCall /\ last.op \in LaserFeatures /\ last.value # NoValue
        /\ last.op # "set_gradual_drawing")
        => IF LastRange[1] <= last.value[1] /\ last.value[1] <= LastRange[2]
           THEN (Connected /\ InChannels(LastTarget))
                   => /\ Handed
                      /\ get_channel_value_of(current_state, LastTarget) = last.value
           ELSE last.outcome = "rejected" /\ current_state = last.pre

C7_Witness ==
    /\ last.op = "set_pattern_zooming" /\ last.sel = 2 /\ last.mode = "zoom_in"
    /\ last.value = <<145>> /\ Handed
    /\ num_channels = 32 /\ last.pre[22] = 0 /\ current_state[22] = 145

\* ---- node expansion: the companion gradual-drawing channel before the call
ExpansionCall ==
    /\ last.op = "set_node_expansion" /\ last.sel \in {1, 2}
    /\ InByte(last.value[1])
    /\ InChannels(IF last.sel = 1 THEN 15 ELSE 32)
ExpansionChannel == IF last.sel = 1 THEN 14 ELSE 31
CompanionBefore == last.pre[IF last.sel = 1 THEN 15 ELSE 32]

ExpansionEffect ==
    IF CompanionBefore >= 128
    THEN IF last.delay = NoValue
         THEN last.outcome = "rejected" /\ current_state = last.pre
         ELSE InByte(last.delay[1])
                 => Handed /\ current_state[ExpansionChannel] = last.delay[1]
    ELSE Handed /\ current_state[ExpansionChannel] = last.value[1]

\* C8 (as stated): for laser 1 (14/15) and laser 2 (31/32), with byte-sized
\* arguments: companion >= 128 writes delay_value to the expansion channel and
\* fails without writing when delay_value is absent; companion < 128 writes
\* expansion_value and ignores delay_value.
C8_ExpansionReadsCompanion ==
    ExpansionCall => ExpansionEffect

\* C8 (amended): the same when serial_port is not None; with no connection
\* only the refusal for an absent delay_value takes place.
C8_ExpansionReadsCompanionAmended ==
    ExpansionCall =>
        IF Connected THEN ExpansionEffect
        ELSE /\ current_state = last.pre
             /\ (CompanionBefore >= 128 /\ last.delay = NoValue)
                    => last.outcome = "rejected"

C8_Witness ==
    /\ last.op = "set_node_expansion" /\ last.sel = 1 /\ Handed
    /\ last.value = <<50>> /\ last.delay = <<10>>
    /\ last.pre[15] >= 128 /\ last.pre[14] = 0 /\ current_state[14] = 10

\* C9: a manual gradual-drawing call writes channel 15 only when channel 14
\* is non-zero at that moment, and channel 32 only when channel 31 is, for
\* every laser selector value.
C9_ManualWriteNeedsExpansion ==
    (ManualCall /\ Handed)
        => \A c \in DOMAIN last.cv :
              ValidEntry(c, last.cv[c]) => last.pre[c - 1] # 0

\* C10 (as stated): blackout sets channel 1 to 0 and leaves every other
\* channel at the value it held before the call.
C10_BlackoutOnlyLamp ==
    last.op = "blackout"
        => /\ current_state[1] = 0
           /\ \A i \in 2..num_channels : current_state[i] = last.pre[i]

\* C10 (amended): it does so when serial_port is not None.
C10_BlackoutOnlyLampConnected ==
    (last.op = "blackout" /\ Connected)
        => /\ current_state[1] = 0
           /\ \A i \in 2..num_channels : current_state[i] = last.pre[i]

C10_Witness ==
    /\ last.op = "blackout" /\ Handed
    /\ last.pre[1] = 10 /\ last.pre[2] = 20
    /\ current_state[1] = 0 /\ current_state[2] = 20

\* ---- transport failures, as the caller of the operation sees them
\* the operation reached the transport while no usable connection existed
TransportFailure == last.sends = 1 /\ serial_port # "Open"
\* what a send that succeeds gives its caller: None, and no exception
CompletedNormally == ~last.raised /\ last.result = NoValue

\* C11 (as stated): a transport failure during a send (write raising an I/O
\* error, or no connection) reaches the caller of the operation as a failure
\* outcome; the operation never appears to have completed normally.
C11_FailureSurfaced ==
    TransportFailure => ~CompletedNormally

\* C11 (amended): a transport failure during a send is reported on the
\* console only: the operation returns None without raising, as a successful
\* send does; with no connection the array is untouched and no packet is
\* built, after an I/O error of write the array keeps the call's valid entries.
C11_FailureOnlyPrinted ==
    TransportFailure =>
        /\ CompletedNormally
        /\ serial_port = "None" =>
               last.outcome = "not_connected" /\ current_state = last.pre
               /\ last.packet = << >>
        /\ serial_port = "Unusable" =>
               /\ last.outcome = "io_error"
               /\ Len(last.packet) = num_channels + 1
               /\ \A i \in 1..num_channels :
                     current_state[i] =
                        IF i \in DOMAIN last.cv /\ InByte(last.cv[i])
                        THEN last.cv[i] ELSE last.pre[i]

\* write raised on a set_channel call whose value had already been stored
C11_Witness ==
    /\ TransportFailure /\ serial_port = "Unusable"
    /\ last.op = "set_channel" /\ last.sel = 1 /\ last.value = <<255>>
    /\ last.pre[1] = 0 /\ current_state[1] = 255 /\ CompletedNormally

\* C12: for every channel count N >= 1 (also N < 32) and every operation with
\* any integer arguments, the operation ends in success or in a local,
\* recoverable error: no exception leaves the operation, also when the
\* target or companion channel (15, 31, 32) is greater than N.
C12_NoUnhandledFault ==
    last # Idle => ~last.raised

\* C13: the state snapshot (get_current_state) is a copy: taking it does not
\* change the channel array, and a snapshot keeps the values it had when
\* taken, also after later channel writes or a reset change the array.
C13_SnapshotIsCopy ==
    /\ last.op = "get_current_state" => current_state = last.pre
    /\ returned_state # "nothing" => ReturnedList = returned_values

\* ---- send_dmx_packet given several entries of which at least one is invalid
MixedSend ==
    /\ last.op = "send_dmx_packet"
    /\ Cardinality(DOMAIN last.cv) >= 2
    /\ \E c \in DOMAIN last.cv : ~(InChannels(c) /\ InByte(last.cv[c]))

\* C14 (as stated): send_dmx_packet given a map of several entries of which
\* at least one is invalid is all-or-nothing: it applies none of the entries.
C14_AllOrNothing ==
    MixedSend => current_state = last.pre

\* C14 (amended): such a call is not all-or-nothing: while serial_port is not
\* None it stores every valid entry, skips only the invalid ones and still
\* hands the packet to write; with serial_port None it applies no entry.
C14_ValidSubsetApplied ==
    MixedSend =>
        IF Connected
        THEN /\ Handed
             /\ \A i \in 1..num_channels :
                   current_state[i] =
                      IF i \in DOMAIN last.cv /\ InByte(last.cv[i])
                      THEN last.cv[i] ELSE last.pre[i]
        ELSE current_state = last.pre

\* {1: 10, 33: 5} on a connected controller: channel 1 written, 33 skipped
C14_Witness ==
    /\ MixedSend /\ Connected /\ last.cv = ((1 :> 10) @@ (33 :> 5))
    /\ last.pre[1] = 0 /\ current_state[1] = 10
    /\ \A i \in 2..num_channels : current_state[i] = last.pre[i]

\* ---- the operations that take a laser selector
LaserOps ==
    { "set_pattern_size", "select_pattern", "set_pattern_zooming",
      "set_pattern_rotation", "set_horizontal_movement", "set_vertical_movement",
      "set_forced_color", "set_node_highlighting", "set_node_expansion",
      "set_gradual_drawing", "set_distortion_degree" }

\* C15: every laser-parameterized operation writes a channel only when its
\* laser selector is 1 or 2; a call with any other selector is rejected (no
\* packet goes out) and leaves the channel array unchanged.
C15_OnlyLaserOneOrTwo ==
    (last.op \in LaserOps /\ last.sel \notin {1, 2})
        => ~Handed /\ current_state = last.pre

\* v lies in the closed range <<lo, hi>>
InRange(v, range) == range[1] <= v /\ v <= range[2]

\* C16: right after a successful mode-setting call on a feature with a mode
\* table, with mode name m, the feature's target channel holds a value inside
\* m's own table range [lo, hi] and inside no other mode's range of the feature.
C16_ValueInsideModeRange ==
    (KnownModeCall /\ last.outcome = "sent" /\ InChannels(LastTarget))
        => /\ InRange(current_state[LastTarget], LastRange)
           /\ \A m \in DOMAIN FeatureTable[last.op] \ {last.mode} :
                 ~InRange(current_state[LastTarget], FeatureTable[last.op][m])

\* ---- the channel map: the channel of each operation for laser 1 / laser 2
\* (one channel twice where the operation takes no laser selector)
ChannelMap ==
    [ set_lamp_mode |-> <<1, 1>>, blackout |-> <<1, 1>>,
      set_pattern_size |-> <<2, 19>>, select_gallery |-> <<3, 3>>,
      select_pattern |-> <<4, 21>>, set_pattern_zooming |-> <<5, 22>>,
      set_pattern_rotation |-> <<6, 23>>, set_horizontal_movement |-> <<7, 24>>,
      set_vertical_movement |-> <<8, 25>>, set_horizontal_zooming |-> <<9, 9>>,
      set_vertical_zooming |-> <<10, 10>>, set_forced_color |-> <<11, 28>>,
      set_strobe_flash |-> <<12, 12>>, set_node_highlighting |-> <<13, 30>>,
      set_node_expansion |-> <<14, 31>>, set_gradual_drawing |-> <<15, 32>>,
      set_distortion_degree |-> <<16, 17>>, set_second_lamp_pattern |-> <<18, 18>>,
      set_pattern_library_selection |-> <<20, 20>>,
      set_horizontal_flip |-> <<26, 26>>, set_vertical_flip |-> <<27, 27>>,
      set_color_change |-> <<29, 29>> ]

\* the elements of the array the last call changed
Changed ==
    IF last = Idle THEN {}
    ELSE {i \in 1..num_channels : current_state[i] # last.pre[i]}

MultiEntrySend ==
    last.op = "send_dmx_packet" /\ Cardinality(DOMAIN last.cv) >= 2

\* C17: every mode-setting operation and set_channel changes at most one
\* element of the array per call, the one of the feature's channel in the
\* channel map, and all other channels keep their values; only
\* reset_all_channels and send_dmx_packet with a multi-entry map change more
\* than one channel in a call.
C17_AtMostOneChannel ==
    /\ (last.op # "reset_all_channels" /\ ~MultiEntrySend)
          => Cardinality(Changed) <= 1
    /\ last.op = "set_channel" => Changed \subseteq {last.sel}
    /\ last.op \in DOMAIN ChannelMap
          => Changed \subseteq {ChannelMap[last.op][IF last.sel = 1 THEN 1 ELSE 2]}

\* color change on an array that holds other non-zero channels
C17_Witness ==
    /\ last.op = "set_color_change" /\ last.mode = "white" /\ Handed
    /\ num_channels = 32 /\ last.pre[1] = 10 /\ last.pre[2] = 20
    /\ Changed = {29} /\ current_state[29] = 8

\* C18: while serial_port is None (after a failed connect or after
\* disconnect) no operation changes the channel array and no packet is
\* written: the array stays as it was when the connection was lost, through
\* any sequence of set_channel, mode-setting, blackout and reset calls.
C18_NoConnectionNoChange ==
    [][serial_port = "None" =>
          /\ current_state' = current_state
          /\ last'.packet = << >>]_vars

\* a written array, then disconnect, then reset_all_channels: nothing zeroed
C18_Witness ==
    /\ serial_port = "None" /\ last.op = "reset_all_channels"
    /\ last.sends = 1 /\ last.packet = << >>
    /\ last.pre[1] = 10 /\ last.pre[2] = 20 /\ current_state = last.pre

====
